---- MODULE Spec2Model ----
(***************************************************************************)
(* A model of the 2-D fast multipole solver of kbrauss/FMM2D: class Util   *)
(* (cell addressing), class Point (leaf lookup), class Box (cell data and  *)
(* the neighbour / interaction-list derivations) and class FmmTree (the    *)
(* constructor, initStruct, solve with its three passes, solveDirect).     *)
(*                                                                         *)
(* Numbers.  A coordinate is an integer number of 1/G units (G = 2^GBits), *)
(* so floor(coord * 2^level) is (c * 2^level) \div G.  A charge is a       *)
(* symbol: the charge sequence u is <<1, 2, ..., k>>, u[i] standing for    *)
(* "the value stored at index i".  A coefficient array (c, dtilde, d of a  *)
(* Box) is the record [size, terms]: size is the vector's length and terms *)
(* is the bag of (source location, charge) pairs whose expansions have     *)
(* been added into the array.  The translations getSS, getSR, getRR are    *)
(* taken as exact, so they carry the bag over unchanged.  A potential      *)
(* (an entry of a result vector) is the pair of bags it is the sum of.     *)
(***************************************************************************)
EXTENDS Integers, Sequences, FiniteSets, Bags, TLC

VARIABLES
  sources,         \* the caller's vector of source points
  targets,         \* the caller's vector of target points
  u,               \* the caller's vector of charges
  levelArg,        \* the constructor's argument 'level'
  potential,       \* the Potential object: [p |-> truncation order]
  numOfLevels,     \* FmmTree::numOfLevels
  x,               \* FmmTree::x
  y,               \* FmmTree::y
  tree_structure,  \* FmmTree::tree_structure: level -> (index -> Box)
  pc,              \* where the program is: start, built, aborted, crashed,
                   \* seeded, up, dp1, dp2, solved; item when one iteration
                   \* of a phase's loop has been run on its own
  v,               \* the vector solve() returns
  direct,          \* the vector solveDirect() returns
  directDone,      \* solveDirect() has returned
  ub,              \* the out-of-bounds accesses made so far (ghost)
  call,            \* a call of an address function of Util or Box on its
                   \* own: the function, its arguments and what it returned
  returned         \* the vectors the calls of solve() have returned so far

vars == <<sources, targets, u, levelArg, potential, numOfLevels, x, y,
          tree_structure, pc, v, direct, directDone, ub, call, returned>>

----------------------------------------------------------------------------
\* Program constants.

MAX_NUM_LEVEL == 8
DEFAULT_P == 12
DEFAULT_LEVEL == 3
DEFAULT_INDEX == 0
DEFAULT_NUM_LEVEL == 3
MAIN_P == 5

\* Bounds of the model.

GBits == 4             \* coordinates are multiples of 1/2^GBits
MaxPts == 2            \* most sources, and most targets, of a solve
MaxBuildPts == 1       \* most points (sources plus targets) of a build alone
MaxSolveLevel == 4     \* largest 'level' a solve is run with
MaxAddrLevel == 6      \* finest level whose addresses are all enumerated
MaxSolves == 2         \* most calls of solve() on one tree

G == 2^GBits

\* The sample points: one in the corner cell, one two leaf cells to its right
\* at 1/8 cells (the next cell at 1/4 cells), one on the right edge x = 1.
Pts == { [x |-> 1, y |-> 1], [x |-> 5, y |-> 1], [x |-> G, y |-> 11] }

\* What a read past the end of the target vector may find: any point, or
\* bytes that are no point of the unit square.
OutOfDomain == [x |-> -1, y |-> -1]

SeqsUpTo(S, n) == UNION { [1..k -> S] : k \in 0..n }

\* The charge vector of length k: u[i] is the symbol i.
Charges(k) == [i \in 1..k |-> i]

----------------------------------------------------------------------------
\* class Util

\* Util::getbit: (n & (1 << pos)) != 0
getbit(n, pos) == IF (n \div (2^pos)) % 2 = 1 THEN 1 ELSE 0

\* Util::setbit: n | (1<<pos) when setto = 1, else n & ~(1<<pos)
setbit(n, pos, setto) ==
  IF setto = 1
    THEN (IF getbit(n, pos) = 1 THEN n ELSE n + 2^pos)
    ELSE (IF getbit(n, pos) = 1 THEN n - 2^pos ELSE n)

RECURSIVE interleaveLoop(_, _, _, _, _)
interleaveLoop(gx, gy, level, i, ans) ==
  IF i >= level THEN ans
  ELSE interleaveLoop(gx, gy, level, i + 1,
         setbit(setbit(ans, (level - i) * 2 - 1, getbit(gx, level - i - 1)),
                (level - i) * 2 - 2, getbit(gy, level - i - 1)))

\* An interleave that puts the row's bits where the column's belong.
interleaveSwapped(gx, gy, level) ==
  IF gx = 0 /\ gy = 0 THEN 0 ELSE interleaveLoop(gy, gx, level, 0, 0)

\* Util::interleave
interleave(gx, gy, level) ==
  IF gx = 0 /\ gy = 0 THEN 0 ELSE interleaveLoop(gx, gy, level, 0, 0)

RECURSIVE uninterleaveLoop(_, _, _, _)
uninterleaveLoop(n, L, i, acc) ==
  IF i >= L THEN acc
  ELSE uninterleaveLoop(n, L, i + 1,
         [x |-> setbit(acc.x, L - i - 1, getbit(n, (L - i - 1) * 2 + 1)),
          y |-> setbit(acc.y, L - i - 1, getbit(n, (L - i - 1) * 2))])

\* Util::uninterleave: the cell's column (x) and row (y)
uninterleave(n, L) ==
  IF n = 0 THEN [x |-> 0, y |-> 0]
  ELSE uninterleaveLoop(n, L, 0, [x |-> 0, y |-> 0])

----------------------------------------------------------------------------
\* class Point

\* Point::equals: |a - b| < epsilon; points of the 1/G grid that differ are
\* at least 1/G apart.
equals(a, b) == a.x = b.x /\ a.y = b.y

\* Point::getBoxIndex
getBoxIndex(pt, level) ==
  interleave((pt.x * 2^level) \div G, (pt.y * 2^level) \div G, level)

----------------------------------------------------------------------------
\* class Box

\* A vector of n complex zeros.
Zeros(n) == [size |-> n, terms |-> EmptyBag]

\* Box::Box(): level, index and p take the defaults and the three arrays
\* get p+1 entries.
Box == [level |-> DEFAULT_LEVEL, index |-> DEFAULT_INDEX, p |-> DEFAULT_P,
        c |-> Zeros(DEFAULT_P + 1), dtilde |-> Zeros(DEFAULT_P + 1),
        d |-> Zeros(DEFAULT_P + 1), x |-> <<>>, y |-> <<>>]

\* Box::getParentIndex
getParentIndex(index) == index \div 4

\* Box::getChildrenIndex
getChildrenIndex(index) == [i \in 1..4 |-> index * 4 + (i - 1)]

\* Box::getChildrenIndexOfBox
getChildrenIndexOfBox(levelOfBox, indexOfBox) ==
  [i \in 1..4 |-> indexOfBox * 4 + (i - 1)]

\* Nested loops that stop short of the last pair (1, 1).
OffsetsWithoutLast == << <<0 - 1, 0 - 1>>, <<0 - 1, 0>>, <<0 - 1, 1>>,
                         <<0, 0 - 1>>,     <<0, 0>>,     <<0, 1>>,
                         <<1, 0 - 1>>,     <<1, 0>> >>

\* The (i, j) pairs of the nested loops of getNeighborsIndex, in loop order.
Offsets == << <<0 - 1, 0 - 1>>, <<0 - 1, 0>>, <<0 - 1, 1>>,
              <<0, 0 - 1>>,     <<0, 0>>,     <<0, 1>>,
              <<1, 0 - 1>>,     <<1, 0>>,     <<1, 1>> >>

\* The loop without its test (i != 0 || j != 0): the cell itself is taken.
neighborsAroundWithSelf(level, cx, cy) ==
  LET inGrid(o) == /\ cx + o[1] >= 0 /\ cx + o[1] < 2^level
                   /\ cy + o[2] >= 0 /\ cy + o[2] < 2^level
      kept == SelectSeq(Offsets, inGrid)
  IN [k \in 1..Len(kept) |-> interleave(cx + kept[k][1], cy + kept[k][2], level)]

\* The loop shared by getNeighborsIndex and getParentsNeighborsIndex: the
\* cells around column cx, row cy that lie inside the level's grid.
neighborsAround(level, cx, cy) ==
  LET inGrid(o) == /\ (o[1] # 0 \/ o[2] # 0)
                   /\ cx + o[1] >= 0 /\ cx + o[1] < 2^level
                   /\ cy + o[2] >= 0 /\ cy + o[2] < 2^level
      kept == SelectSeq(Offsets, inGrid)
  IN [k \in 1..Len(kept) |-> interleave(cx + kept[k][1], cy + kept[k][2], level)]

\* Box::getNeighborsIndex
getNeighborsIndex(level, index) ==
  LET tmp == uninterleave(index, level)
  IN neighborsAround(level, tmp.x, tmp.y)

\* A getParentsNeighborsIndex that loses the last neighbour of the parent.
getParentsNeighborsIndexShort(level, index) ==
  LET tmp == uninterleave(getParentIndex(index), level - 1)
      all == neighborsAround(level - 1, tmp.x, tmp.y)
  IN SubSeq(all, 1, Len(all) - 1)

\* Box::getParentsNeighborsIndex
getParentsNeighborsIndex(level, index) ==
  LET tmp == uninterleave(getParentIndex(index), level - 1)
  IN neighborsAround(level - 1, tmp.x, tmp.y)

\* A getNeighborsE4Index without its second loop: every child of the
\* parent's neighbours is kept.
getNeighborsE4IndexUnfiltered(level, index) ==
  LET parents_neighbor_indexes == getParentsNeighborsIndex(level, index)
  IN [k \in 1..(4 * Len(parents_neighbor_indexes)) |->
        getChildrenIndexOfBox(level - 1,
          parents_neighbor_indexes[((k - 1) \div 4) + 1])[((k - 1) % 4) + 1]]

\* A getNeighborsE4Index that also takes the children of the parent itself.
getNeighborsE4IndexWithParent(level, index) ==
  LET neighbor_indexes == getNeighborsIndex(level, index)
      parents == Append(getParentsNeighborsIndex(level, index), getParentIndex(index))
      children == [k \in 1..(4 * Len(parents)) |->
                     getChildrenIndexOfBox(level - 1,
                       parents[((k - 1) \div 4) + 1])[((k - 1) % 4) + 1]]
      notNeighbor(m) == \A j \in 1..Len(neighbor_indexes) : neighbor_indexes[j] # m
  IN SelectSeq(children, notNeighbor)

\* Box::getCenter: (uninterleave(index, level) + (0.5, 0.5)) * getSize(), in
\* units of half a cell of the level.
getCenter(level, index) ==
  LET ll_corner == uninterleave(index, level)
  IN [x |-> 2 * ll_corner.x + 1, y |-> 2 * ll_corner.y + 1]

\* Box::getNeighborsE4Index: the children of the parent's neighbours that are
\* not neighbours of this box.
getNeighborsE4Index(level, index) ==
  LET neighbor_indexes == getNeighborsIndex(level, index)
      parents_neighbor_indexes == getParentsNeighborsIndex(level, index)
      parent_neighbor_children_indexes ==
        [k \in 1..(4 * Len(parents_neighbor_indexes)) |->
           getChildrenIndexOfBox(level - 1,
             parents_neighbor_indexes[((k - 1) \div 4) + 1])[((k - 1) % 4) + 1]]
      notNeighbor(m) == \A j \in 1..Len(neighbor_indexes) : neighbor_indexes[j] # m
  IN SelectSeq(parent_neighbor_children_indexes, notNeighbor)

\* An addToDtilde that adds its increment twice.
addToDtildeTwice(box, increment) ==
  [box EXCEPT !.dtilde.terms = @ (+) increment.terms (+) increment.terms]

\* Box::addToC, addToDtilde, addToD: the loop runs over the box's own array,
\* adding increment[i] to entry i.
addToC(box, increment) == [box EXCEPT !.c.terms = @ (+) increment.terms]
addToDtilde(box, increment) == [box EXCEPT !.dtilde.terms = @ (+) increment.terms]
addToD(box, increment) == [box EXCEPT !.d.terms = @ (+) increment.terms]

----------------------------------------------------------------------------
\* class Potential

\* Potential::getSCoeff times the charge: p coefficients of one source.
getSCoeff(p, xi, q) == [size |-> p, terms |-> SetToBag({[loc |-> xi, q |-> q]})]

\* Potential::getSS, getSR, getRR: a p x p matrix applied to the first p
\* entries of the argument; exact, so the same sources are represented.
getSS(p, sCoeff) == [size |-> p, terms |-> sCoeff.terms]
getSR(p, sCoeff) == [size |-> p, terms |-> sCoeff.terms]
getRR(p, rCoeff) == [size |-> p, terms |-> rCoeff.terms]

----------------------------------------------------------------------------
\* class FmmTree: construction

RECURSIVE addXLoop(_, _, _, _)
\* initStruct's second loop: tree_structure[numOfLevels-1][getBoxIndex].addX
addXLoop(tree, nL, xs, i) ==
  IF i > Len(xs) THEN tree
  ELSE addXLoop([tree EXCEPT ![nL - 1][getBoxIndex(xs[i], nL - 1)].x
                               = Append(@, xs[i])],
                nL, xs, i + 1)

RECURSIVE addYLoop(_, _, _, _)
\* initStruct's third loop: tree_structure[numOfLevels-1][getBoxIndex].addY
addYLoop(tree, nL, ys, i) ==
  IF i > Len(ys) THEN tree
  ELSE addYLoop([tree EXCEPT ![nL - 1][getBoxIndex(ys[i], nL - 1)].y
                               = Append(@, ys[i])],
                nL, ys, i + 1)

\* An initStruct that allocates one level more: levels 0..numOfLevels.
initCellsOneMore(nL, pp) ==
  [i \in 0..nL |->
     [j \in 0..(4^i - 1) |-> [Box EXCEPT !.level = i, !.index = j, !.p = pp]]]

\* initStruct's first loop: level i is resized to 4^i default-constructed
\* boxes; setLevel, setIndex and setP then overwrite the three scalars.
initCells(nL, pp) ==
  [i \in 0..(nL - 1) |->
     [j \in 0..(4^i - 1) |-> [Box EXCEPT !.level = i, !.index = j, !.p = pp]]]

\* FmmTree::initStruct
initStruct(nL, pp, xs, ys) ==
  addYLoop(addXLoop(initCells(nL, pp), nL, xs, 1), nL, ys, 1)

\* A constructor that rejects the largest level the asserts accept.
levelAcceptedBelowMax(level) == level > 0 /\ level < MAX_NUM_LEVEL

\* The constructor's two asserts.
levelAccepted(level) == level > 0 /\ level <= MAX_NUM_LEVEL

\* tree_structure(numOfLevels) in the initializer list: a negative count
\* converts to a size beyond max_size() and the vector constructor throws.
vectorConstructible(n) == n >= 0

\* What targets[i] reads for i >= targets.size().
GarbageTargets(N, M) == IF N > M THEN Pts \cup {OutOfDomain} ELSE {OutOfDomain}

\* The copy loop of the constructor: length = sources.size(); y[i] = targets[i]
\* for i < length, whatever targets.size() is.
copyTargets(N, tg, g) == [i \in 1..N |-> IF i <= Len(tg) THEN tg[i] ELSE g]

\* FmmTree::FmmTree(level, sources, targets, potential)
Construct ==
  /\ pc = "start"
  /\ \E g \in GarbageTargets(Len(sources), Len(targets)) :
       LET N == Len(sources)
           over == N > Len(targets)
       IN IF ~vectorConstructible(levelArg) \/ ~levelAccepted(levelArg)
            THEN /\ pc' = "aborted"
                 /\ UNCHANGED <<numOfLevels, x, y, tree_structure, ub>>
          ELSE IF over /\ g = OutOfDomain
            THEN /\ pc' = "crashed"
                 /\ ub' = ub \cup {"targets"}
                 /\ UNCHANGED <<numOfLevels, x, y, tree_structure>>
          ELSE /\ pc' = "built"
               /\ numOfLevels' = levelArg
               /\ x' = sources
               /\ y' = copyTargets(N, targets, g)
               /\ tree_structure' = initStruct(levelArg, potential.p, sources,
                                               copyTargets(N, targets, g))
               /\ ub' = IF over THEN ub \cup {"targets"} ELSE ub
  /\ UNCHANGED <<sources, targets, u, levelArg, potential, v, direct, directDone, call, returned>>

----------------------------------------------------------------------------
\* The build alone, for every 'level' around the accepted range.

BuildLevels == (0 - 1)..(MAX_NUM_LEVEL + 2)
BuildPs == {0, MAIN_P}

\* No address function has been called.
NoCall(level, n) ==
  [op |-> "none", level |-> level, n |-> n,
   addr |-> 0, pt |-> [x |-> 0, y |-> 0], list |-> <<>>]

InitCommon ==
  /\ numOfLevels = 0
  /\ x = <<>>
  /\ y = <<>>
  /\ tree_structure = <<>>
  /\ pc = "start"
  /\ v = <<>>
  /\ direct = <<>>
  /\ directDone = FALSE
  /\ ub = {}
  /\ returned = <<>>

InitBuild ==
  /\ sources \in SeqsUpTo(Pts, MaxBuildPts)
  /\ targets \in SeqsUpTo(Pts, MaxBuildPts)
  /\ Len(sources) + Len(targets) <= MaxBuildPts
  /\ u = Charges(Len(sources))
  /\ levelArg \in BuildLevels
  /\ potential \in { [p |-> pp] : pp \in BuildPs }
  /\ InitCommon
  /\ call = NoCall(0, 0)

SpecBuild == InitBuild /\ [][Construct]_vars

----------------------------------------------------------------------------
\* class FmmTree: solve and solveDirect

\* FmmTree::getIndex: the first position of z that equals pt; 0 stands for
\* the code's -1 (positions are counted from 1 here).
getIndex(z, pt) ==
  IF \E i \in 1..Len(z) : equals(z[i], pt)
    THEN CHOOSE i \in 1..Len(z) :
           equals(z[i], pt) /\ \A j \in 1..(i - 1) : ~equals(z[j], pt)
    ELSE 0

\* u[k]: inside the vector the charge stored there; outside it whatever the
\* memory at that offset holds, written as the symbol -k.
readU(us, k) == IF k \in 1..Len(us) THEN us[k] ELSE 0 - k

\* A test for "same point" that no pair passes.
coincidentNever(a, b) == FALSE

\* The test of solve() and solveDirect() for "same point":
\* |y - x| <= epsilon * max(1, |x|, |y|).
coincident(a, b) == a.x = b.x /\ a.y = b.y

RECURSIVE seedLoop(_, _, _, _, _)
\* upwardPass, first loop, one leaf: every source of the box adds its
\* coefficients, scaled by u[getIndex(x, thisX)], into the box's C.
seedLoop(box, j, p, xs, us) ==
  IF j > Len(box.x) THEN box
  ELSE seedLoop(addToC(box, getSCoeff(p, box.x[j],
                                      readU(us, getIndex(xs, box.x[j])))),
                j + 1, p, xs, us)

RECURSIVE upLevelsCoarsestFirst(_, _, _)
\* A second loop that visits the levels from 2 up to the finest: a level is
\* translated into its parents before its own children have reached it.
upLevelsCoarsestFirst(tree, el, p) ==
  IF el < 2 THEN tree
  ELSE LET t == upLevelsCoarsestFirst(tree, el - 1, p)
       IN [t EXCEPT ![el - 1] =
             [a \in DOMAIN @ |->
                addToC(addToC(addToC(addToC(@[a],
                  getSS(p, t[el][getChildrenIndex(a)[1]].c)),
                  getSS(p, t[el][getChildrenIndex(a)[2]].c)),
                  getSS(p, t[el][getChildrenIndex(a)[3]].c)),
                  getSS(p, t[el][getChildrenIndex(a)[4]].c))]]

RECURSIVE upLevels(_, _, _)
\* upwardPass, second loop: for el = numOfLevels-1 down to 2 every box of
\* level el adds getSS(its C) into its parent's C.  The four children of a
\* parent are consecutive, so the parent receives them in index order.
upLevels(tree, el, p) ==
  IF el < 2 THEN tree
  ELSE upLevels(
         [tree EXCEPT ![el - 1] =
            [a \in DOMAIN @ |->
               addToC(addToC(addToC(addToC(@[a],
                 getSS(p, tree[el][getChildrenIndex(a)[1]].c)),
                 getSS(p, tree[el][getChildrenIndex(a)[2]].c)),
                 getSS(p, tree[el][getChildrenIndex(a)[3]].c)),
                 getSS(p, tree[el][getChildrenIndex(a)[4]].c))]],
         el - 1, p)

\* upwardPass, first loop: every box of the finest level is seeded.
seedLeaves(tree, nL, p, xs, us) ==
  [tree EXCEPT ![nL - 1] = [i \in DOMAIN @ |-> seedLoop(@[i], 1, p, xs, us)]]

\* FmmTree::upwardPass
upwardPass(tree, nL, p, xs, us) ==
  upLevels(seedLeaves(tree, nL, p, xs, us), nL - 1, p)

RECURSIVE e4Loop(_, _, _, _, _)
\* downwardPass1, one box: every box of the interaction list adds
\* getSR(its C) into this box's Dtilde.
e4Loop(box, list, j, cells, p) ==
  IF j > Len(list) THEN box
  ELSE e4Loop(addToDtilde(box, getSR(p, cells[list[j]].c)), list, j + 1, cells, p)

\* FmmTree::downwardPass1: levels 2 .. numOfLevels-1
downwardPass1(tree, nL, p) ==
  [el \in DOMAIN tree |->
     IF el >= 2 /\ el < nL
       THEN [k \in DOMAIN tree[el] |->
               e4Loop(tree[el][k], getNeighborsE4Index(el, k), 1, tree[el], p)]
       ELSE tree[el]]

RECURSIVE downLevels(_, _, _, _)
\* downwardPass2, second loop: for el = 2 .. numOfLevels-2 every box adds
\* getRR(its D) into each child's D, and the child then adds its own Dtilde.
downLevels(tree, el, nL, p) ==
  IF el >= nL - 1 THEN tree
  ELSE downLevels(
         [tree EXCEPT ![el + 1] =
            [k \in DOMAIN @ |->
               addToD(addToD(@[k], getRR(p, tree[el][getParentIndex(k)].d)),
                      @[k].dtilde)]],
         el + 1, nL, p)

\* A downwardPass2 without its first loop: level 2 keeps a zero D.
downwardPass2WithoutLevel2(tree, nL, p) == downLevels(tree, 2, nL, p)

\* FmmTree::downwardPass2, on a tree that has a level 2
downwardPass2(tree, nL, p) ==
  downLevels([tree EXCEPT ![2] = [i \in DOMAIN @ |-> addToD(@[i], @[i].dtilde)]],
             2, nL, p)

\* The bag of the elements of a sequence.
BagOfSeq(s) ==
  [e \in {s[i] : i \in DOMAIN s} |-> Cardinality({i \in DOMAIN s : s[i] = e})]

RECURSIVE nearLoop(_, _, _, _, _, _, _)
\* solve(), loops [13]-[28]: the sources of the neighbour boxes and of this
\* box, each weighted by u[getIndex(x, thisX)], coincident ones left out.
nearLoop(cells, list, m, thisY, xs, us, acc) ==
  IF m > Len(list) THEN acc
  ELSE LET thisNeighborsX == cells[list[m]].x
           kept == SelectSeq(thisNeighborsX, LAMBDA thisX : ~coincident(thisY, thisX))
           inc == [q \in 1..Len(kept) |->
                     [loc |-> kept[q], q |-> readU(us, getIndex(xs, kept[q]))]]
       IN nearLoop(cells, list, m + 1, thisY, xs, us, acc (+) BagOfSeq(inc))

\* solve(), loops [5]-[28] for one target of one leaf: regPart from the
\* leaf's D, sinPart from the near boxes.
potentialAt(cells, level, i, thisY, xs, us) ==
  [written |-> TRUE,
   regPart |-> cells[i].d.terms,
   sinPart |-> nearLoop(cells, Append(getNeighborsIndex(level, i), i), 1,
                        thisY, xs, us, EmptyBag)]

\* An entry of a result vector that was resized but never assigned: 0.0.
Unwritten == [written |-> FALSE, regPart |-> EmptyBag, sinPart |-> EmptyBag]

\* solve(), loops [0]-[29]: v.resize(y.size()); every target of every leaf
\* assigns v[getIndex(y, thisY)].  Of several assignments to one entry the
\* last in loop order stays.
evaluate(tree, nL, xs, ys, us) ==
  LET cells == tree[nL - 1]
      writes(t) == UNION { { <<i, j>> : j \in { k \in 1..Len(cells[i].y) :
                                               getIndex(ys, cells[i].y[k]) = t } } :
                           i \in DOMAIN cells }
      last(W) == CHOOSE w \in W : \A o \in W :
                    o[1] < w[1] \/ (o[1] = w[1] /\ o[2] <= w[2])
  IN [t \in 1..Len(ys) |->
        IF writes(t) = {} THEN Unwritten
        ELSE potentialAt(cells, nL - 1, last(writes(t))[1],
                         cells[last(writes(t))[1]].y[last(writes(t))[2]], xs, us)]

\* FmmTree::solveDirect: v[j] += u[i] * direct(y[j], x[i]) for every i that
\* is not coincident with y[j].
solveDirect(xs, ys, us) ==
  [j \in 1..Len(ys) |->
     LET kept == SelectSeq([i \in 1..Len(xs) |-> i],
                           LAMBDA i : ~coincident(ys[j], xs[i]))
     IN [written |-> TRUE,
         regPart |-> EmptyBag,
         sinPart |-> BagOfSeq([k \in 1..Len(kept) |->
                                 [loc |-> xs[kept[k]], q |-> readU(us, kept[k])]])]]

\* The charge reads of solve() (both loops read u[getIndex(x, thisX)] for
\* sources of leaves) that fall outside u.
chargeReadsOutside(xs, us) ==
  \E i \in 1..Len(xs) : getIndex(xs, xs[i]) \notin 1..Len(us)

\* Box::addToC, addToD, addToDtilde: the loop reads increment[i] for every i
\* below the size of the box's own array; it reads past the end of an
\* increment that is shorter.  The value read there is whatever the memory
\* holds; the model records the access and carries the terms on.
addReadsOutside(arr, increment) == increment.size < arr.size

\* Potential::getSS, getSR, getRR: the loops read coefficient j of the
\* argument for every j < p.
translationReadsOutside(p, coeff) == p > coeff.size

\* solve(), loops [9]-[10]: d[k] * rVec[k] for every k < d.size(); rVec has
\* the p entries getRVector gave it.
evaluationReadsOutside(p, d) == p < d.size

\* upwardPass, first loop: a box with a source adds getSCoeff's vector.
seedReadsOutside(tree, nL, p) ==
  \E i \in DOMAIN tree[nL - 1] :
    /\ Len(tree[nL - 1][i].x) > 0
    /\ addReadsOutside(tree[nL - 1][i].c, getSCoeff(p, tree[nL - 1][i].x[1], 0))

\* upwardPass, second loop: getSS of a box's C is added to the parent's C.
upReadsOutside(tree, nL, p) ==
  \E el \in 2..(nL - 1) : \E k \in DOMAIN tree[el] :
    \/ translationReadsOutside(p, tree[el][k].c)
    \/ addReadsOutside(tree[el - 1][getParentIndex(k)].c, getSS(p, tree[el][k].c))

\* downwardPass1: getSR of the C of an interaction-list box is added to
\* the box's Dtilde.
dp1ReadsOutside(tree, nL, p) ==
  \E el \in 2..(nL - 1) : \E k \in DOMAIN tree[el] :
    /\ getNeighborsE4Index(el, k) # <<>>
    /\ \/ translationReadsOutside(p, tree[el][k].c)
       \/ addReadsOutside(tree[el][k].dtilde, getSR(p, tree[el][k].c))

\* downwardPass2: a box of level 2 adds its Dtilde to its D; below, getRR of
\* the parent's D and the child's Dtilde are added to the child's D.
dp2ReadsOutside(tree, nL, p) ==
  \/ \E k \in DOMAIN tree[2] : addReadsOutside(tree[2][k].d, tree[2][k].dtilde)
  \/ \E el \in 2..(nL - 2) : \E k \in DOMAIN tree[el] :
       \/ translationReadsOutside(p, tree[el][k].d)
       \/ addReadsOutside(tree[el + 1][4 * k].d, getRR(p, tree[el][k].d))
       \/ addReadsOutside(tree[el + 1][4 * k].d, tree[el + 1][4 * k].dtilde)

\* solve(), the evaluation loops: a box with a target sums over its D.
evalReadsOutside(tree, nL, p) ==
  \E i \in DOMAIN tree[nL - 1] :
    Len(tree[nL - 1][i].y) > 0 /\ evaluationReadsOutside(p, tree[nL - 1][i].d)

\* solve(), first call: upwardPass(u), its first loop (the seeding of the
\* finest level)
SolveSeed ==
  /\ pc = "built"
  /\ pc' = "seeded"
  /\ tree_structure' = seedLeaves(tree_structure, numOfLevels, potential.p, x, u)
  /\ ub' = ub \cup (IF chargeReadsOutside(x, u) THEN {"charges"} ELSE {})
               \cup (IF seedReadsOutside(tree_structure, numOfLevels, potential.p)
                       THEN {"coefficients"} ELSE {})
  /\ UNCHANGED <<sources, targets, u, levelArg, potential, numOfLevels, x, y,
                 v, direct, directDone, call, returned>>

\* solve(), first call: upwardPass(u), its second loop (the levels, finest
\* first)
SolveUpwardPass ==
  /\ pc = "seeded"
  /\ pc' = "up"
  /\ tree_structure' = upLevels(tree_structure, numOfLevels - 1, potential.p)
  /\ ub' = ub \cup (IF upReadsOutside(tree_structure, numOfLevels, potential.p)
                      THEN {"coefficients"} ELSE {})
  /\ UNCHANGED <<sources, targets, u, levelArg, potential, numOfLevels, x, y,
                 v, direct, directDone, call, returned>>

\* A solve() that calls downwardPass1() before the upward pass has run its
\* level loop.
SolveDownwardPass1Early ==
  /\ pc = "seeded"
  /\ pc' = "dp1"
  /\ tree_structure' = downwardPass1(tree_structure, numOfLevels, potential.p)
  /\ UNCHANGED <<sources, targets, u, levelArg, potential, numOfLevels, x, y,
                 v, direct, directDone, ub, call, returned>>

\* solve(), second call: downwardPass1()
SolveDownwardPass1 ==
  /\ pc = "up"
  /\ pc' = "dp1"
  /\ tree_structure' = downwardPass1(tree_structure, numOfLevels, potential.p)
  /\ ub' = ub \cup (IF dp1ReadsOutside(tree_structure, numOfLevels, potential.p)
                      THEN {"coefficients"} ELSE {})
  /\ UNCHANGED <<sources, targets, u, levelArg, potential, numOfLevels, x, y,
                 v, direct, directDone, call, returned>>

\* solve(), third call: downwardPass2().  Its first loop indexes
\* tree_structure[2]; on a tree of fewer than three levels that is past the
\* end of the vector, and the run either stops there or finds nothing to loop
\* over.
SolveDownwardPass2 ==
  /\ pc = "dp1"
  /\ IF numOfLevels >= 3
       THEN /\ pc' = "dp2"
            /\ tree_structure' = downwardPass2(tree_structure, numOfLevels, potential.p)
            /\ ub' = ub \cup (IF dp2ReadsOutside(tree_structure, numOfLevels, potential.p)
                                THEN {"coefficients"} ELSE {})
       ELSE /\ pc' \in {"dp2", "crashed"}
            /\ tree_structure' = tree_structure
            /\ ub' = ub \cup {"level2"}
  /\ UNCHANGED <<sources, targets, u, levelArg, potential, numOfLevels, x, y,
                 v, direct, directDone, call, returned>>

\* An evaluation that uses up the D of the leaves: each is zero afterwards.
SolveEvaluateClearingD ==
  /\ pc = "dp2"
  /\ pc' = "solved"
  /\ v' = evaluate(tree_structure, numOfLevels, x, y, u)
  /\ tree_structure' =
       [tree_structure EXCEPT ![numOfLevels - 1] =
          [a \in DOMAIN @ |-> [@[a] EXCEPT !.d.terms = EmptyBag]]]
  /\ returned' = Append(returned, v')
  /\ UNCHANGED <<sources, targets, u, levelArg, potential, numOfLevels, x, y,
                 direct, directDone, ub, call>>

\* solve(), the evaluation loops and the return of v
SolveEvaluate ==
  /\ pc = "dp2"
  /\ pc' = "solved"
  /\ v' = evaluate(tree_structure, numOfLevels, x, y, u)
  /\ ub' = ub \cup (IF evalReadsOutside(tree_structure, numOfLevels, potential.p)
                      THEN {"coefficients"} ELSE {})
  /\ returned' = Append(returned, v')
  /\ UNCHANGED <<sources, targets, u, levelArg, potential, numOfLevels, x, y,
                 tree_structure, direct, directDone, call>>

\* FmmTree::solveDirect(u), called after solve(u) as main() does
SolveDirect ==
  /\ pc = "solved"
  /\ ~directDone
  /\ directDone' = TRUE
  /\ direct' = solveDirect(x, y, u)
  /\ ub' = ub \cup (IF Len(x) > Len(u) /\ Len(y) > 0 THEN {"charges"} ELSE {})
  /\ UNCHANGED <<sources, targets, u, levelArg, potential, numOfLevels, x, y,
                 tree_structure, pc, v, call, returned>>

----------------------------------------------------------------------------
\* A whole run: build, then solve and solveDirect.

SolveLevels == 1..MaxSolveLevel
SolvePs == {MAIN_P, DEFAULT_P + 1}

Init ==
  /\ sources \in SeqsUpTo(Pts, MaxPts)
  /\ targets \in SeqsUpTo(Pts, MaxPts)
  /\ u \in { Charges(k) : k \in { n \in (Len(sources) - 1)..(Len(sources) + 1) : n >= 0 } }
  /\ levelArg \in SolveLevels
  /\ potential \in { [p |-> pp] : pp \in SolvePs }
  /\ InitCommon
  /\ call = NoCall(0, 0)

Next ==
  \/ Construct
  \/ SolveSeed
  \/ SolveUpwardPass
  \/ SolveDownwardPass1
  \/ SolveDownwardPass2
  \/ SolveEvaluate
  \/ SolveDirect

Spec == Init /\ [][Next]_vars

\* Runs on inputs of the shape main() gives: the targets at the positions of
\* the sources (Example1 fills x and y with the same coordinates), one charge
\* per source, a tree of DEFAULT_NUM_LEVEL levels or more.
MainLevels == DEFAULT_NUM_LEVEL..MaxSolveLevel

InitMain ==
  /\ sources \in SeqsUpTo(Pts, MaxPts)
  /\ targets = sources
  /\ u = Charges(Len(sources))
  /\ levelArg \in MainLevels
  /\ potential \in { [p |-> pp] : pp \in SolvePs }
  /\ InitCommon
  /\ call = NoCall(0, 0)

SpecMain == InitMain /\ [][Next]_vars

----------------------------------------------------------------------------
\* solve(u) called again on the tree an earlier solve(u) has returned from.

\* The caller enters solve() once more: same tree, same charges.  Nothing
\* is reset between the calls; the constructor is the only place that
\* zeroes C, Dtilde and D.
SolveAgain ==
  /\ pc = "solved"
  /\ Len(returned) < MaxSolves
  /\ pc' = "built"
  /\ UNCHANGED <<sources, targets, u, levelArg, potential, numOfLevels, x, y,
                 tree_structure, v, direct, directDone, ub, call, returned>>

InitRepeat ==
  /\ sources \in SeqsUpTo(Pts, MaxPts)
  /\ targets = sources
  /\ u = Charges(Len(sources))
  /\ levelArg \in MainLevels
  /\ potential \in { [p |-> pp] : pp \in SolvePs }
  /\ InitCommon
  /\ call = NoCall(0, 0)

NextRepeat ==
  \/ Next
  \/ SolveAgain

SpecRepeat == InitRepeat /\ [][NextRepeat]_vars

----------------------------------------------------------------------------
\* The iterations ("work items") of the loops of phase 1 (seeding, one per
\* leaf), phase 3 (downward pass 1, one per box) and phase 5 (evaluation,
\* one per target), each with the locations it reads and writes.  A location
\* is <<name, level, index>>: an array or point list of a box, an entry of
\* v, a member of FmmTree or a variable of the enclosing function.

numOpsIndirect == <<"numOpsIndirect", 0, 0>>

\* upwardPass, first loop, iteration i: getX() of the leaf; for a leaf with
\* sources getIndex(x, thisX), u[...], std::cout << B[k], the counter and
\* addToC on the leaf's own C.
SeedItemReads(i) ==
  {<<"boxX", numOfLevels - 1, i>>}
    \cup (IF Len(tree_structure[numOfLevels - 1][i].x) > 0
            THEN {<<"x", 0, 0>>, <<"u", 0, 0>>, <<"c", numOfLevels - 1, i>>,
                  numOpsIndirect}
            ELSE {})
SeedItemWrites(i) ==
  IF Len(tree_structure[numOfLevels - 1][i].x) > 0
    THEN {<<"c", numOfLevels - 1, i>>, numOpsIndirect, <<"cout", 0, 0>>}
    ELSE {}

\* downwardPass1, iteration (el, k): the list thisBoxNeighborsE4Indexes and
\* the variables from and to are declared outside the loops; for every box
\* of the interaction list its C is read, the counter is incremented twice
\* and addToDtilde works on the box's own Dtilde.
Dp1ItemReads(el, k) ==
  {<<"thisBoxNeighborsE4Indexes", 0, 0>>}
    \cup { <<"c", el, getNeighborsE4Index(el, k)[j]>> :
             j \in 1..Len(getNeighborsE4Index(el, k)) }
    \cup (IF getNeighborsE4Index(el, k) # <<>>
            THEN {<<"dtilde", el, k>>, numOpsIndirect, <<"from", 0, 0>>, <<"to", 0, 0>>}
            ELSE {})
\* A downward pass 1 whose iteration also accumulated into the box's own C.
Dp1ItemWritesOwnC(el, k) ==
  {<<"thisBoxNeighborsE4Indexes", 0, 0>>, <<"c", el, k>>}
    \cup (IF getNeighborsE4Index(el, k) # <<>>
            THEN {<<"dtilde", el, k>>, numOpsIndirect, <<"from", 0, 0>>, <<"to", 0, 0>>}
            ELSE {})
Dp1ItemWrites(el, k) ==
  {<<"thisBoxNeighborsE4Indexes", 0, 0>>}
    \cup (IF getNeighborsE4Index(el, k) # <<>>
            THEN {<<"dtilde", el, k>>, numOpsIndirect, <<"from", 0, 0>>, <<"to", 0, 0>>}
            ELSE {})

\* solve(), loops [4]-[29], the iteration for target j of leaf i: getY() and
\* getD() of the leaf, getX() of the leaf and of its neighbours,
\* getIndex(x, thisX) and u[...] for their sources, getIndex(y, thisY), the
\* counter, and the assignment to v[getIndex(y, thisY)].
EvalItemReads(i, j) ==
  LET near == Append(getNeighborsIndex(numOfLevels - 1, i), i)
  IN {<<"boxY", numOfLevels - 1, i>>, <<"d", numOfLevels - 1, i>>,
      <<"y", 0, 0>>, numOpsIndirect}
       \cup { <<"boxX", numOfLevels - 1, near[m]>> : m \in 1..Len(near) }
       \cup (IF \E m \in 1..Len(near) :
                  Len(tree_structure[numOfLevels - 1][near[m]].x) > 0
               THEN {<<"x", 0, 0>>, <<"u", 0, 0>>}
               ELSE {})
EvalItemWrites(i, j) ==
  {<<"v", 0, getIndex(y, tree_structure[numOfLevels - 1][i].y[j])>>, numOpsIndirect}

\* The work items of a phase, and their accesses.
Items(phase) ==
  CASE phase = 1 -> { <<numOfLevels - 1, i>> : i \in DOMAIN tree_structure[numOfLevels - 1] }
    [] phase = 3 -> UNION { { <<el, k>> : k \in DOMAIN tree_structure[el] } :
                            el \in 2..(numOfLevels - 1) }
    [] OTHER     -> UNION { { <<i, j>> : j \in 1..Len(tree_structure[numOfLevels - 1][i].y) } :
                            i \in DOMAIN tree_structure[numOfLevels - 1] }
ItemReads(phase, it) ==
  CASE phase = 1 -> SeedItemReads(it[2])
    [] phase = 3 -> Dp1ItemReads(it[1], it[2])
    [] OTHER     -> EvalItemReads(it[1], it[2])
ItemWrites(phase, it) ==
  CASE phase = 1 -> SeedItemWrites(it[2])
    [] phase = 3 -> Dp1ItemWrites(it[1], it[2])
    [] OTHER     -> EvalItemWrites(it[1], it[2])

\* What is recorded of a work item that was run.
ItemRun(phase, it) ==
  [op |-> "item", level |-> phase, n |-> 0, addr |-> 0, pt |-> [x |-> 0, y |-> 0],
   list |-> <<it, ItemReads(phase, it), ItemWrites(phase, it)>>]

\* One iteration of the seeding loop, run on its own on the built tree.
RunSeedItem ==
  /\ pc = "built"
  /\ pc' = "item"
  /\ \E it \in Items(1) :
       /\ tree_structure' =
            [tree_structure EXCEPT ![it[1]][it[2]] = seedLoop(@, 1, potential.p, x, u)]
       /\ call' = ItemRun(1, it)
  /\ UNCHANGED <<sources, targets, u, levelArg, potential, numOfLevels, x, y,
                 v, direct, directDone, ub, returned>>

\* One iteration of the loops of downwardPass1, run on its own after the
\* upward pass.
RunDownwardPass1Item ==
  /\ pc = "up"
  /\ pc' = "item"
  /\ \E it \in Items(3) :
       /\ tree_structure' =
            [tree_structure EXCEPT ![it[1]][it[2]] =
               e4Loop(@, getNeighborsE4Index(it[1], it[2]), 1,
                      tree_structure[it[1]], potential.p)]
       /\ call' = ItemRun(3, it)
  /\ UNCHANGED <<sources, targets, u, levelArg, potential, numOfLevels, x, y,
                 v, direct, directDone, ub, returned>>

\* One iteration of the evaluation loops, run on its own after downward
\* pass 2: the potential of one target is assigned.
RunEvaluateItem ==
  /\ pc = "dp2"
  /\ numOfLevels >= 3
  /\ pc' = "item"
  /\ \E it \in Items(5) :
       /\ v' = [t \in 1..Len(y) |->
                  IF t = getIndex(y, tree_structure[numOfLevels - 1][it[1]].y[it[2]])
                    THEN potentialAt(tree_structure[numOfLevels - 1], numOfLevels - 1,
                                     it[1], tree_structure[numOfLevels - 1][it[1]].y[it[2]],
                                     x, u)
                    ELSE Unwritten]
       /\ call' = ItemRun(5, it)
  /\ UNCHANGED <<sources, targets, u, levelArg, potential, numOfLevels, x, y,
                 tree_structure, direct, directDone, ub, returned>>

MaxItemLevel == 3      \* largest 'level' of a tree whose work items are run

InitItems ==
  /\ sources \in SeqsUpTo(Pts, MaxPts)
  /\ targets = sources
  /\ u = Charges(Len(sources))
  /\ levelArg \in DEFAULT_NUM_LEVEL..MaxItemLevel
  /\ potential = [p |-> MAIN_P]
  /\ InitCommon
  /\ call = NoCall(0, 0)

NextItems ==
  \/ Construct
  \/ SolveSeed
  \/ SolveUpwardPass
  \/ SolveDownwardPass1
  \/ SolveDownwardPass2
  \/ RunSeedItem
  \/ RunDownwardPass1Item
  \/ RunEvaluateItem

SpecItems == InitItems /\ [][NextItems]_vars

\* The locations that hold the tree's data, the inputs and the result, as
\* opposed to the operation counter, the output stream and the variables of
\* the enclosing function.
DataOf(S) ==
  { loc \in S : loc[1] \in {"c", "dtilde", "d", "boxX", "boxY", "x", "y", "u", "v"} }

DistinctTargets == \A i, j \in 1..Len(y) : i # j => y[i] # y[j]

----------------------------------------------------------------------------
\* FmmTree::getClusterThreshold, called on a tree that was just built (as
\* main() does on its trial trees).

\* A loop body that looks at the sources of a cell alone.
clusterStepSourcesOnly(box, ans) ==
  IF Len(box.x) > ans THEN Len(box.x) ELSE ans

\* The body of the loop of getClusterThreshold: ans is raised to the cell's
\* source count, then to its target count.
clusterStep(box, ans) ==
  LET xlength == Len(box.x)
      ylength == Len(box.y)
      afterX == IF xlength > ans THEN xlength ELSE ans
  IN IF ylength > afterX THEN ylength ELSE afterX

RECURSIVE clusterLoop(_, _, _, _)
\* The loop of getClusterThreshold over the cells lo .. hi-1 in index order,
\* entered with ans: the first half of the range, then the second.  ans
\* starts at 0 and is only raised, so ans < 0 never holds; the comparison
\* has the running value computed before the next cell is visited.
clusterLoop(cells, lo, hi, ans) ==
  IF hi <= lo \/ ans < 0 THEN ans
  ELSE IF hi = lo + 1 THEN clusterStep(cells[lo], ans)
  ELSE clusterLoop(cells, (lo + hi) \div 2, hi,
                   clusterLoop(cells, lo, (lo + hi) \div 2, ans))

\* FmmTree::getClusterThreshold
getClusterThreshold(tree, nL) ==
  clusterLoop(tree[nL - 1], 0, Cardinality(DOMAIN tree[nL - 1]), 0)

CallGetClusterThreshold ==
  /\ pc = "built"
  /\ call.op = "none"
  /\ call' = [call EXCEPT !.op = "clusterThreshold",
                          !.level = numOfLevels - 1,
                          !.n = getClusterThreshold(tree_structure, numOfLevels)]
  /\ UNCHANGED <<sources, targets, u, levelArg, potential, numOfLevels, x, y,
                 tree_structure, pc, v, direct, directDone, ub, returned>>

InitThreshold ==
  /\ sources \in SeqsUpTo(Pts, MaxPts)
  /\ targets \in SeqsUpTo(Pts, MaxPts)
  /\ u = Charges(Len(sources))
  /\ levelArg \in SolveLevels
  /\ potential = [p |-> MAIN_P]
  /\ InitCommon
  /\ call = NoCall(0, 0)

NextThreshold ==
  \/ Construct
  \/ CallGetClusterThreshold

SpecThreshold == InitThreshold /\ [][NextThreshold]_vars

----------------------------------------------------------------------------
\* The address functions of Util and Box called on their own, for every
\* address of the levels 1..MaxAddrLevel.

\* The column and the row that address n stands for when the 4^level
\* addresses are laid out row by row: every (gx, gy) of the level's grid
\* comes from exactly one n.
gxOf(level, n) == n % (2^level)
gyOf(level, n) == n \div (2^level)

InitAddr ==
  /\ sources = <<>>
  /\ targets = <<>>
  /\ u = <<>>
  /\ levelArg = 0
  /\ potential = [p |-> MAIN_P]
  /\ InitCommon
  /\ \E level \in 1..MaxAddrLevel : \E n \in 0..(4^level - 1) : call = NoCall(level, n)

\* Everything but call.
progVars == <<sources, targets, u, levelArg, potential, numOfLevels, x, y,
              tree_structure, pc, v, direct, directDone, ub, returned>>

\* util.interleave(gx, gy, level)
CallInterleave ==
  /\ call.op = "none"
  /\ call' = [call EXCEPT !.op = "interleave",
                    !.addr = interleave(gxOf(call.level, call.n), gyOf(call.level, call.n), call.level)]
  /\ UNCHANGED progVars

\* util.uninterleave applied to the address interleave returned
CallUninterleaveOfResult ==
  /\ call.op = "interleave"
  /\ call' = [call EXCEPT !.op = "interleave-uninterleave",
                    !.pt = uninterleave(call.addr, call.level)]
  /\ UNCHANGED progVars

\* util.uninterleave(n, level)
CallUninterleave ==
  /\ call.op = "none"
  /\ call' = [call EXCEPT !.op = "uninterleave", !.pt = uninterleave(call.n, call.level)]
  /\ UNCHANGED progVars

\* util.interleave applied to the column and row uninterleave returned
CallInterleaveOfResult ==
  /\ call.op = "uninterleave"
  /\ call' = [call EXCEPT !.op = "uninterleave-interleave",
                    !.addr = interleave(call.pt.x, call.pt.y, call.level)]
  /\ UNCHANGED progVars

\* Box(level, n, p).getNeighborsIndex(list)
CallGetNeighborsIndex ==
  /\ call.op = "none"
  /\ call' = [call EXCEPT !.op = "neighbors", !.list = getNeighborsIndex(call.level, call.n)]
  /\ UNCHANGED progVars

\* Box(level, n, p).getNeighborsE4Index(list)
CallGetNeighborsE4Index ==
  /\ call.op = "none"
  /\ call' = [call EXCEPT !.op = "E4", !.list = getNeighborsE4Index(call.level, call.n)]
  /\ UNCHANGED progVars

NextAddr ==
  \/ CallInterleave
  \/ CallUninterleaveOfResult
  \/ CallUninterleave
  \/ CallInterleaveOfResult
  \/ CallGetNeighborsIndex
  \/ CallGetNeighborsE4Index

SpecAddr == InitAddr /\ [][NextAddr]_vars

----------------------------------------------------------------------------
\* Properties of the address functions (checked under SpecAddr).

\* C11: interleave and uninterleave are mutually inverse: for every level
\* and every address n of the level, interleaving what uninterleave
\* returned gives n back; for every column and row of the level's grid,
\* interleave returns an address of the level and uninterleaving it gives the
\* column and row back.
C11_RoundTrip ==
  /\ (call.op = "uninterleave-interleave" => call.addr = call.n)
  /\ (call.op \in {"interleave", "interleave-uninterleave"} =>
        call.addr \in 0..(4^call.level - 1))
  /\ (call.op = "interleave-uninterleave" =>
        call.pt = [x |-> gxOf(call.level, call.n), y |-> gyOf(call.level, call.n)])

\* C11 witness: address 46 of level 3 went to column 7, row 2 and back.
C11_Witness ==
  /\ call.op = "uninterleave-interleave" /\ call.level = 3 /\ call.n = 46
  /\ call.pt = [x |-> 7, y |-> 2] /\ call.addr = 46

\* C12: neighbour symmetry: at every level, every address m in the
\* neighbour list of n has n in its own neighbour list (over all n and m this
\* is the equivalence of the two memberships).
C12_NeighborSymmetry ==
  (call.op = "neighbors") =>
    \A k \in 1..Len(call.list) :
      LET back == getNeighborsIndex(call.level, call.list[k])
      IN \E j \in 1..Len(back) : back[j] = call.n

\* C12 witness: the five neighbours of address 2 of level 3 were returned.
C12_Witness ==
  /\ call.op = "neighbors" /\ call.level = 3 /\ call.n = 2
  /\ call.list = <<0, 1, 3, 8, 9>>

\* C13: for every level >= 2 and every address n of the level, the neighbour
\* list and the interaction list of n have no address in common.
C13_E4DisjointFromNeighbors ==
  (call.op = "E4" /\ call.level >= 2) =>
    LET near == getNeighborsIndex(call.level, call.n)
    IN \A k \in 1..Len(call.list) : \A j \in 1..Len(near) : call.list[k] # near[j]

\* C13 witness: the interaction list of address 2 of level 3 was returned.
C13_Witness ==
  /\ call.op = "E4" /\ call.level = 3 /\ call.n = 2
  /\ call.list = <<4, 5, 6, 7, 10, 11, 12, 13, 14, 15>>

\* C14: for every level >= 2 and every address a, the interaction list of a
\* does not contain a, and the centre of each of its cells differs from the
\* centre of a: the translation vector of every far-to-near translation of
\* downward pass 1 is non-zero.
C14_E4ExcludesSelf ==
  (call.op = "E4" /\ call.level >= 2) =>
    \A k \in 1..Len(call.list) :
      /\ call.list[k] # call.n
      /\ getCenter(call.level, call.list[k]) # getCenter(call.level, call.n)

\* C14 witness: a corner cell of level 2 got a non-empty interaction list.
C14_Witness ==
  /\ call.op = "E4" /\ call.level = 2 /\ call.n = 0
  /\ Len(call.list) = 12

\* The addresses a list holds.
Members(list) == { list[k] : k \in 1..Len(list) }

\* C21: at level 2, for every cell n, the cell, its neighbour list and its
\* interaction list have no address in common, hold no address twice and
\* together are the 16 cells of the level.
C21_Level2Partition ==
  (call.op = "E4" /\ call.level = 2) =>
    LET near == Members(getNeighborsIndex(2, call.n))
        far == Members(call.list)
    IN /\ call.n \notin near /\ call.n \notin far /\ near \cap far = {}
       /\ {call.n} \cup near \cup far = 0..15
       /\ 1 + Len(getNeighborsIndex(2, call.n)) + Len(call.list) = 16

\* C21 witness: an interior cell of level 2 (address 3, column 1, row 1) has
\* 8 neighbours and got the 7 remaining cells as its interaction list.
C21_Witness ==
  /\ call.op = "E4" /\ call.level = 2 /\ call.n = 3
  /\ Len(getNeighborsIndex(2, 3)) = 8
  /\ Len(call.list) = 7

\* The addresses of the cells of the level's grid that touch the cell in
\* column cx, row cy.
AdjacentAddresses(level, cx, cy) ==
  { interleave(cx + dx, cy + dy, level) :
      <<dx, dy>> \in { d \in {0 - 1, 0, 1} \X {0 - 1, 0, 1} :
                         /\ d # <<0, 0>>
                         /\ cx + d[1] \in 0..(2^level - 1)
                         /\ cy + d[2] \in 0..(2^level - 1) } }

\* How many of the two coordinates lie on the border of the level's grid.
OnBorder(level, cx, cy) ==
  (IF cx \in {0, 2^level - 1} THEN 1 ELSE 0)
    + (IF cy \in {0, 2^level - 1} THEN 1 ELSE 0)

\* C27: for every level and every address a, the neighbour list of a holds
\* exactly the addresses of the cells of the grid that touch a's cell, none
\* twice and never a: 3 for a corner cell, 5 for an edge cell, 8 for an
\* interior cell.
C27_NeighborsExact ==
  (call.op = "neighbors") =>
    LET at == uninterleave(call.n, call.level)
    IN /\ Members(call.list) = AdjacentAddresses(call.level, at.x, at.y)
       /\ Cardinality(Members(call.list)) = Len(call.list)
       /\ call.n \notin Members(call.list)
       /\ Len(call.list) = CASE OnBorder(call.level, at.x, at.y) = 2 -> 3
                              [] OnBorder(call.level, at.x, at.y) = 1 -> 5
                              [] OTHER -> 8

\* C27 witness: the interior cell in column 1, row 1 of level 2 (address 3)
\* got its 8 neighbours.
C27_Witness ==
  /\ call.op = "neighbors" /\ call.level = 2 /\ call.n = 3
  /\ Len(call.list) = 8
  /\ Members(call.list) = {0, 1, 2, 4, 6, 8, 9, 12}

----------------------------------------------------------------------------
\* Properties of the build (checked under SpecBuild).

\* One slot per entry of the source lists of the finest level.
LeafSourceSlots ==
  UNION { { <<a, k>> : k \in 1..Len(tree_structure[numOfLevels - 1][a].x) } :
          a \in DOMAIN tree_structure[numOfLevels - 1] }

\* One slot per entry of the target lists of the finest level.
LeafTargetSlots ==
  UNION { { <<a, k>> : k \in 1..Len(tree_structure[numOfLevels - 1][a].y) } :
          a \in DOMAIN tree_structure[numOfLevels - 1] }

\* C5: after build with truncation order p >= 1 the C, Dtilde and D arrays of
\* every cell of every level have exactly p entries, all of them zero.
C5_ArraysHavePEntries ==
  (pc = "built" /\ potential.p >= 1) =>
    \A l \in DOMAIN tree_structure : \A a \in DOMAIN tree_structure[l] :
      LET b == tree_structure[l][a]
      IN /\ b.c = Zeros(potential.p)
         /\ b.dtilde = Zeros(potential.p)
         /\ b.d = Zeros(potential.p)

C7_NonPositivePRejected ==
  (pc # "start" /\ potential.p <= 0) => (pc = "aborted" /\ tree_structure = <<>>)

C10_PointsPlacedOnce ==
  (pc = "built") =>
    LET leaves == tree_structure[numOfLevels - 1]
    IN /\ \A i \in 1..Len(sources) :
            Cardinality({ a \in DOMAIN leaves :
                            \E k \in 1..Len(leaves[a].x) : leaves[a].x[k] = sources[i] }) = 1
       /\ \A j \in 1..Len(targets) :
            Cardinality({ a \in DOMAIN leaves :
                            \E k \in 1..Len(leaves[a].y) : leaves[a].y[k] = targets[j] }) = 1
       /\ \A l \in DOMAIN tree_structure : \A a \in DOMAIN tree_structure[l] :
            l # numOfLevels - 1 =>
              tree_structure[l][a].x = <<>> /\ tree_structure[l][a].y = <<>>
       /\ Cardinality(LeafSourceSlots) = Len(sources)
       /\ Cardinality(LeafTargetSlots) = Len(targets)

----------------------------------------------------------------------------
\* Properties of solve and solveDirect (checked under Spec).

\* The pairs a potential is the sum of.
PairsOf(entry) == entry.regPart (+) entry.sinPart

\* Every source that is not coincident with target j, with its own charge.
ExpectedPairs(j) ==
  LET kept == SelectSeq([i \in 1..Len(sources) |-> i],
                        LAMBDA i : ~coincident(targets[j], sources[i]))
  IN BagOfSeq([k \in 1..Len(kept) |-> [loc |-> sources[kept[k]], q |-> u[kept[k]]]])

\* C1: on a tree whose finest level is at least 2, with one charge per
\* source and every read inside its sequence, the pairs that contribute to
\* solve()'s potential of target j are those that contribute to
\* solveDirect()'s: every source not coincident with the target, once, with
\* its charge.
C1_SolveCountsEveryPairOnce ==
  (/\ pc = "solved" /\ directDone /\ numOfLevels >= 3
   /\ Len(u) = Len(sources) /\ ub = {}) =>
    \A j \in 1..Len(targets) :
      /\ j \in DOMAIN v /\ j \in DOMAIN direct
      /\ PairsOf(v[j]) = PairsOf(direct[j])
      /\ PairsOf(v[j]) = ExpectedPairs(j)

\* C2: build stores exactly the targets it was given, reading none beyond
\* them, and solve() returns one potential per target.
C2_TargetsKept ==
  (pc \notin {"start", "aborted"}) =>
    /\ "targets" \notin ub
    /\ y = targets
    /\ (pc = "solved" => Len(v) = Len(targets))

\* C3: solve() assigns result[j] for every target j, targets at the same
\* location getting the same potential (on a tree that holds the targets it
\* was given).
C3_EveryResultWritten ==
  (pc = "solved" /\ ub = {} /\ y = targets) =>
    \A j \in 1..Len(v) :
      /\ v[j].written
      /\ \A k \in 1..Len(v) : equals(y[j], y[k]) => v[j] = v[k]

\* The sources whose index is in S, each with the charge at its own index.
OwnCharges(S) ==
  LET s == SelectSeq([i \in 1..Len(x) |-> i], LAMBDA i : i \in S)
  IN BagOfSeq([k \in 1..Len(s) |-> [loc |-> x[s[k]], q |-> u[s[k]]]])

\* C4: with one charge per source, every source enters its leaf's C and the
\* near-field sums weighted by the charge stored at its own index.
C4_OwnChargeUsed ==
  (pc \in {"seeded", "up", "dp1", "dp2", "solved"} /\ Len(u) = Len(x) /\ ub = {}) =>
    LET L == numOfLevels - 1
        leaves == tree_structure[L]
    IN /\ \A a \in DOMAIN leaves :
            leaves[a].c.terms = OwnCharges({ i \in 1..Len(x) : getBoxIndex(x[i], L) = a })
       /\ (pc = "solved" =>
             \A j \in 1..Len(v) :
               v[j].written =>
                 LET me == getBoxIndex(y[j], L)
                     near == {me} \cup { getNeighborsIndex(L, me)[k] :
                                         k \in 1..Len(getNeighborsIndex(L, me)) }
                 IN v[j].sinPart =
                      OwnCharges({ i \in 1..Len(x) :
                                   /\ getBoxIndex(x[i], L) \in near
                                   /\ ~coincident(y[j], x[i]) }))

\* C8: when the number of charges differs from the number of sources,
\* neither solve() nor solveDirect() gets past its start, returns anything
\* or reads a charge outside the sequence.
C8_ChargeCountChecked ==
  (Len(u) # Len(sources)) =>
    /\ pc \notin {"seeded", "up", "dp1", "dp2", "solved"}
    /\ ~directDone
    /\ "charges" \notin ub

----------------------------------------------------------------------------
\* Properties of the runs of main() (checked under SpecMain).

\* The steps between the positions of a run: the constructor, then the
\* phases of solve() in the order of its text.
PhaseSteps ==
  { <<"start", "built">>, <<"start", "aborted">>, <<"start", "crashed">>,
    <<"built", "seeded">>, <<"seeded", "up">>, <<"up", "dp1">>,
    <<"dp1", "dp2">>, <<"dp1", "crashed">>, <<"dp2", "solved">> }

\* The C, Dtilde and D arrays of every box of the tree.
AllC ==
  [l \in DOMAIN tree_structure |->
     [a \in DOMAIN tree_structure[l] |-> tree_structure[l][a].c]]
AllDtilde ==
  [l \in DOMAIN tree_structure |->
     [a \in DOMAIN tree_structure[l] |-> tree_structure[l][a].dtilde]]
AllD ==
  [l \in DOMAIN tree_structure |->
     [a \in DOMAIN tree_structure[l] |-> tree_structure[l][a].d]]

\* The sources that lie in box a of level l.
SourcesIn(l, a) == { i \in 1..Len(x) : getBoxIndex(x[i], l) = a }

\* C15: a run moves through seed, upward pass, downward pass 1, downward
\* pass 2 and evaluate in this order, each at most once and all five before
\* it is solved.  A phase changes only its own output: C is written by the
\* seeding and the upward pass alone, Dtilde by downward pass 1 alone, D by
\* downward pass 2 alone, the result by the evaluation alone.  Downward
\* pass 1 begins on a C that is complete: every box of levels 1 and below
\* holds one term per source inside it.
C15_PhaseOrder ==
  [][ /\ (pc' # pc => <<pc, pc'>> \in PhaseSteps)
      /\ (AllC' # AllC => pc \in {"start", "built", "seeded"})
      /\ (AllDtilde' # AllDtilde => pc \in {"start", "up"})
      /\ (AllD' # AllD => pc \in {"start", "dp1"})
      /\ (v' # v => pc = "dp2")
      /\ (pc' = "dp1" =>
            \A l \in 1..(numOfLevels - 1) : \A a \in DOMAIN tree_structure[l] :
              BagCardinality(tree_structure[l][a].c.terms)
                = Cardinality(SourcesIn(l, a))) ]_vars

\* A solved run on a tree of four levels with two sources in different
\* leaves: every phase has had cells to process.
C15_Witness ==
  /\ pc = "solved"
  /\ numOfLevels = 4
  /\ Len(x) = 2 /\ x[1] # x[2]
  /\ \E a \in DOMAIN tree_structure[3] :
       BagCardinality(tree_structure[3][a].d.terms) > 0
  /\ \A j \in 1..Len(v) : v[j].written

\* The number of terms of a sum that come from a source at location P.
TermsAt(B, P) ==
  BagCardinality([e \in { t \in DOMAIN B : t.loc = P } |-> B[e]])

\* The boxes of the finest level whose sources enter the near part of a
\* target in box me: the box and its neighbours.
NearBoxes(me) ==
  {me} \cup { getNeighborsIndex(numOfLevels - 1, me)[k] :
              k \in 1..Len(getNeighborsIndex(numOfLevels - 1, me)) }

\* C16: a solve() and a solveDirect() with a target on a source both
\* complete; for every target that got its potential no source at the
\* target's location is a term of the near part or of the direct sum, and
\* every source elsewhere in the target's leaf or in a neighbour leaf is a
\* term of the near part, once.
C16_CoincidentPairsSkipped ==
  (pc = "solved" /\ directDone) =>
    \A j \in 1..Len(v) :
      v[j].written =>
        /\ TermsAt(v[j].sinPart, y[j]) = 0
        /\ TermsAt(direct[j].sinPart, y[j]) = 0
        /\ \A i \in 1..Len(x) :
             (x[i] # y[j]
              /\ getBoxIndex(x[i], numOfLevels - 1)
                   \in NearBoxes(getBoxIndex(y[j], numOfLevels - 1))) =>
               /\ TermsAt(v[j].sinPart, x[i])
                    = Cardinality({ k \in 1..Len(x) : x[k] = x[i] })
               /\ TermsAt(direct[j].sinPart, x[i])
                    = Cardinality({ k \in 1..Len(x) : x[k] = x[i] })

\* Two sources in neighbouring leaves, the targets on them, both solvers
\* done: each potential has the other source as its one near term.
C16_Witness ==
  /\ pc = "solved" /\ directDone
  /\ Len(x) = 2 /\ y = x /\ x[1] # x[2]
  /\ getBoxIndex(x[2], numOfLevels - 1)
       \in NearBoxes(getBoxIndex(x[1], numOfLevels - 1))
  /\ v[1].written /\ v[2].written
  /\ TermsAt(v[1].sinPart, x[2]) = 1 /\ TermsAt(v[1].sinPart, x[1]) = 0

----------------------------------------------------------------------------
\* Properties of getClusterThreshold (checked under SpecThreshold).

\* The source counts and the target counts of the cells of the finest level.
LeafCounts ==
  { Len(tree_structure[numOfLevels - 1][a].x) :
      a \in DOMAIN tree_structure[numOfLevels - 1] }
  \cup { Len(tree_structure[numOfLevels - 1][a].y) :
           a \in DOMAIN tree_structure[numOfLevels - 1] }

\* C17: a call of getClusterThreshold returns the largest source count or
\* target count of a cell of the finest level, 0 when no cell holds a point,
\* and changes nothing of the tree.
C17_ClusterThreshold ==
  [][ (call.op = "none" /\ call'.op = "clusterThreshold") =>
        /\ call'.n \in LeafCounts \cup {0}
        /\ \A m \in LeafCounts : call'.n >= m
        /\ tree_structure' = tree_structure
        /\ numOfLevels' = numOfLevels /\ x' = x /\ y' = y ]_vars

\* The threshold of a tree of three levels or more whose fullest cell holds
\* two targets and at most one source.
C17_Witness ==
  /\ call.op = "clusterThreshold"
  /\ call.n = 2
  /\ numOfLevels >= 3
  /\ \A a \in DOMAIN tree_structure[numOfLevels - 1] :
       Len(tree_structure[numOfLevels - 1][a].x) <= 1

----------------------------------------------------------------------------
\* Properties of the array and level accesses of solve (checked under Spec).

\* C19: with a truncation order p >= 1, no step of solve() reads a
\* coefficient array at or beyond its length: not addToC, addToDtilde or
\* addToD, not getSS, getSR or getRR, not the evaluation sum over D and
\* the R-vector (on runs whose other accesses are all inside).
C19_CoefficientReadsInside ==
  (potential.p >= 1 /\ ub \cap {"targets", "charges", "level2"} = {}) =>
    "coefficients" \notin ub

\* C20: for every level count the constructor accepts, solve() touches
\* only levels the tree allocated; downward pass 2 finds level 2 inside
\* the tree.
C20_LevelsInsideTree ==
  (pc \in {"built", "seeded", "up", "dp1", "dp2", "solved", "crashed"}
   /\ levelAccepted(levelArg)) =>
    "level2" \notin ub

----------------------------------------------------------------------------
\* Properties of the passes of solve (checked under SpecMain).

\* The terms of the C arrays of the four children of box a of level l.
ChildrenC(l, a) ==
  tree_structure[l + 1][getChildrenIndex(a)[1]].c.terms
    (+) tree_structure[l + 1][getChildrenIndex(a)[2]].c.terms
    (+) tree_structure[l + 1][getChildrenIndex(a)[3]].c.terms
    (+) tree_structure[l + 1][getChildrenIndex(a)[4]].c.terms

\* C22: when the upward pass has ended, the C of every leaf holds one term
\* per source of the leaf and nothing else, and the C of every box of the
\* levels 1 .. finest-1 is the sum of the C its four children have at the
\* end: what was translated into a parent was the child's complete C, and
\* no C was changed after it had been translated.
C22_UpwardReadsFinalC ==
  (pc \in {"up", "dp1", "dp2", "solved"}) =>
    /\ \A a \in DOMAIN tree_structure[numOfLevels - 1] :
         /\ BagCardinality(tree_structure[numOfLevels - 1][a].c.terms)
              = Cardinality(SourcesIn(numOfLevels - 1, a))
         /\ \A t \in DOMAIN tree_structure[numOfLevels - 1][a].c.terms :
              getBoxIndex(t.loc, numOfLevels - 1) = a
    /\ \A l \in 1..(numOfLevels - 2) : \A a \in DOMAIN tree_structure[l] :
         tree_structure[l][a].c.terms = ChildrenC(l, a)

\* The upward pass has ended on a tree of four levels: two sources of
\* different leaves have both reached box 0 of level 1 through level 2.
C22_Witness ==
  /\ pc = "up"
  /\ numOfLevels = 4
  /\ BagCardinality(tree_structure[3][0].c.terms) = 1
  /\ BagCardinality(tree_structure[2][0].c.terms) = 1
  /\ BagCardinality(tree_structure[1][0].c.terms) = 2

\* C23: after downward pass 2 the D of every box of level 2 is its Dtilde,
\* and the D of every box of a level from 3 to the finest is the final D of
\* its parent, translated, plus its own Dtilde: the parent's D was complete
\* when the child read it and was not changed afterwards.
C23_DownwardPass2Result ==
  (pc \in {"dp2", "solved"} /\ numOfLevels >= 3) =>
    /\ \A a \in DOMAIN tree_structure[2] :
         tree_structure[2][a].d.terms = tree_structure[2][a].dtilde.terms
    /\ \A l \in 3..(numOfLevels - 1) : \A a \in DOMAIN tree_structure[l] :
         tree_structure[l][a].d.terms
           = getRR(potential.p, tree_structure[l - 1][getParentIndex(a)].d).terms
               (+) tree_structure[l][a].dtilde.terms

\* Downward pass 2 has ended on a tree of four levels in which a box of
\* level 3 received terms from its parent's D and has terms of its own
\* Dtilde.
C23_Witness ==
  /\ pc = "dp2"
  /\ numOfLevels = 4
  /\ \E a \in DOMAIN tree_structure[3] :
       /\ BagCardinality(tree_structure[2][getParentIndex(a)].d.terms) > 0
       /\ BagCardinality(tree_structure[3][a].dtilde.terms) > 0
       /\ BagCardinality(tree_structure[3][a].d.terms) >= 2

\* How often term t occurs in the sum B.
CountIn(B, t) == IF t \in DOMAIN B THEN B[t] ELSE 0

\* How often term t occurs in the C arrays of the boxes S of level l, taken
\* together.
CountInC(l, S, t) ==
  Cardinality(UNION { { <<m, i>> : i \in 1..CountIn(tree_structure[l][m].c.terms, t) } :
                      m \in S })

\* The terms held by some C of level l.
TermsOfLevel(l) ==
  UNION { DOMAIN tree_structure[l][m].c.terms : m \in DOMAIN tree_structure[l] }

\* C24: downward pass 1 changes no C and no D, leaves the Dtilde of the
\* levels 0 and 1 alone, and adds to the Dtilde of every box c of a level
\* 2 .. L-1 one translation of m's C, as the upward pass left it, for each m
\* of c's interaction list and nothing else.
C24_DownwardPass1Effect ==
  [][ (pc = "up" /\ pc' = "dp1") =>
        /\ AllC' = AllC
        /\ AllD' = AllD
        /\ \A l \in DOMAIN tree_structure : \A c \in DOMAIN tree_structure[l] :
             IF l < 2
               THEN tree_structure'[l][c].dtilde = tree_structure[l][c].dtilde
               ELSE /\ DOMAIN tree_structure'[l][c].dtilde.terms \subseteq
                         TermsOfLevel(l) \cup DOMAIN tree_structure[l][c].dtilde.terms
                    /\ \A t \in TermsOfLevel(l) \cup DOMAIN tree_structure[l][c].dtilde.terms :
                         CountIn(tree_structure'[l][c].dtilde.terms, t)
                           = CountIn(tree_structure[l][c].dtilde.terms, t)
                               + CountInC(l, Members(getNeighborsE4Index(l, c)), t) ]_vars

\* Downward pass 1 has ended on a tree of four levels and some box of level
\* 3 holds a term in its Dtilde, while every D is still zero.
C24_Witness ==
  /\ pc = "dp1"
  /\ numOfLevels = 4
  /\ \E c \in DOMAIN tree_structure[3] :
       BagCardinality(tree_structure[3][c].dtilde.terms) > 0
  /\ \E c \in DOMAIN tree_structure[2] :
       BagCardinality(tree_structure[2][c].dtilde.terms) > 0
  /\ \A c \in DOMAIN tree_structure[3] : tree_structure[3][c].d.terms = EmptyBag

\* C25: after solve() on a tree of three levels or more, with every access
\* inside its array, the C of every box of the levels 0 and 1 is all zero.
C25_CoarseLevelsStayZero ==
  (pc = "solved" /\ numOfLevels >= 3 /\ ub = {}) =>
    \A l \in {0, 1} : \A a \in DOMAIN tree_structure[l] :
      tree_structure[l][a].c.terms = EmptyBag

\* C26: the evaluation step of solve() and solveDirect() change no box of
\* the tree (its C, Dtilde, D and its point lists) and neither the stored
\* sources nor the stored targets.
C26_EvaluationIsReadOnly ==
  [][ ((pc = "dp2" /\ pc' = "solved") \/ (~directDone /\ directDone')) =>
        /\ tree_structure' = tree_structure
        /\ x' = x
        /\ y' = y
        /\ numOfLevels' = numOfLevels ]_vars

\* Both solvers have returned potentials for two targets, and the leaves
\* still hold the D the evaluation read.
C26_Witness ==
  /\ pc = "solved" /\ directDone
  /\ Len(v) = 2 /\ Len(direct) = 2
  /\ \E a \in DOMAIN tree_structure[numOfLevels - 1] :
       /\ Len(tree_structure[numOfLevels - 1][a].y) > 0
       /\ BagCardinality(tree_structure[numOfLevels - 1][a].d.terms) > 0

----------------------------------------------------------------------------
\* Properties of the placement of the points (checked under SpecThreshold).

\* Point pt lies in the closed square of the cell with address a of the
\* level: column cx spans [cx / 2^level, (cx + 1) / 2^level], rows alike.
InSquare(pt, level, a) ==
  LET at == uninterleave(a, level)
  IN /\ at.x * G <= pt.x * 2^level /\ pt.x * 2^level <= (at.x + 1) * G
     /\ at.y * G <= pt.y * 2^level /\ pt.y * 2^level <= (at.y + 1) * G

\* C29: every point of the closed unit square, a point with a coordinate
\* equal to 1 included, is stored in a leaf whose square contains it.
C29_PointsInOwnCell ==
  (pc = "built" /\ ub = {}) =>
    \A a \in DOMAIN tree_structure[numOfLevels - 1] :
      /\ \A i \in 1..Len(tree_structure[numOfLevels - 1][a].x) :
           InSquare(tree_structure[numOfLevels - 1][a].x[i], numOfLevels - 1, a)
      /\ \A i \in 1..Len(tree_structure[numOfLevels - 1][a].y) :
           InSquare(tree_structure[numOfLevels - 1][a].y[i], numOfLevels - 1, a)

----------------------------------------------------------------------------
\* Properties of repeated calls (checked under SpecRepeat).

\* C28: a second solve(u) on the same tree with the same charges returns
\* the potentials the first call returned (on runs with every access inside
\* its array).
C28_SolveRepeatable ==
  (Len(returned) >= 2 /\ ub = {}) => returned[2] = returned[1]

====
